---- MODULE Spec2Model ----
(***************************************************************************)
(* ProjectManager of the pioarduino VSCode extension                       *)
(* (src/unnamed/part_001, lines 146-442): which project directory and     *)
(* which environment is active, how switchToProject moves between them,   *)
(* and how configuration changes are debounced into forced switches.      *)
(*                                                                         *)
(* switchToProject is an async function.  Each call is a frame in `calls`;*)
(* its `pc` names the await it is suspended on.  One action is one run of *)
(* the JavaScript event loop: the code from one await to the next.        *)
(***************************************************************************)
EXTENDS Naturals, Sequences, FiniteSets, TLC

\* ---------------------------------------------------------------- bounds
\* switchToProject calls made in one session
MaxCalls == 2
\* timers that may be scheduled at the same time
MaxTimers == 2
\* configuration changes recorded for one burst
MaxSignals == 3
\* longest list of project directories the workspace query returns
MaxDirs == 2
\* calls recorded in the journal of a session
MaxJournal == 3

\* ------------------------------------------------------------ value sets
Dirs == {"A", "B"}
NoDir == "undefined"
DirOrNone == Dirs \cup {NoDir}
Envs == {"x", "y"}
NoEnv == "Default"
EnvOrNone == Envs \cup {NoEnv}
Slots == 1..MaxCalls

\* the options argument of switchToProject: 'env' in options, options.env,
\* options.force
Options == { o \in [hasEnv : BOOLEAN, env : EnvOrNone, force : BOOLEAN] :
               ~o.hasEnv => o.env = NoEnv }
NoOptions == [hasEnv |-> FALSE, env |-> NoEnv, force |-> FALSE]
ForceOption == [hasEnv |-> FALSE, env |-> NoEnv, force |-> TRUE]

\* lists the workspace query getPIOProjectDirs() can return
RECURSIVE SeqsUpTo(_)
SeqsUpTo(n) ==
  IF n = 0 THEN { <<>> }
  ELSE LET shorter == SeqsUpTo(n - 1)
       IN shorter \cup { Append(s, d) : s \in { t \in shorter : Len(t) = n - 1 },
                                        d \in Dirs }
Range(s) == { s[i] : i \in 1..Len(s) }
ProjectDirLists == { s \in SeqsUpTo(MaxDirs) : Cardinality(Range(s)) = Len(s) }

VARIABLES
  activeProjectDir,       \* ProjectPool._activeProjectDir
  observers,              \* directories the pool holds a ProjectObserver for
  selectedEnv,            \* ProjectObserver._selectedEnv, per directory
  internalSubscriptions,  \* this.internalSubscriptions: the live task/test managers
  taskManager,            \* this._taskManager
  sbText,                 \* this._sbEnvSwitcher.text
  timers,                 \* the callbacks setTimeout has scheduled, counted per
                          \* directory of their closure
  configChangedTimeout,   \* this._configChangedTimeout: the timer handle
  timeoutDelay,           \* the delay the last setTimeout was called with
  projectsState,          \* workspace state: selectedEnv per directory
  lastProjectDir,         \* workspace state: last active directory
  calls,                  \* the frames of the session's switchToProject calls,
                          \* in the order the calls were made
  burst,                  \* history: the directories of the configuration changes
                          \* since a timer was last set with none scheduled
  timerLog,               \* history: the calls the timer callbacks have made
                          \* since then
  previous,               \* history: what the session before the restart
                          \* is known to have persisted, per directory
  policyIn,               \* the arguments findActiveProjectDir is applied to
  policyOut,              \* and its result
  unhandled,              \* the calls whose promise was rejected with no handler
                          \* attached to it (an unhandled rejection)
  teardown,               \* history: the directories removed from the workspace
                          \* and whether dispose() was called
  journal                 \* history: the calls that passed lintConfig since the
                          \* last one that named an environment, it included

vars == << activeProjectDir, observers, selectedEnv, internalSubscriptions,
           taskManager, sbText, timers, configChangedTimeout, projectsState,
           lastProjectDir, calls, burst, timerLog, previous, policyIn,
           policyOut, unhandled, teardown, journal, timeoutDelay >>
heapVars == << activeProjectDir, observers, selectedEnv, internalSubscriptions,
               taskManager, sbText, projectsState, lastProjectDir >>
timerVars == << timers, configChangedTimeout, timeoutDelay >>
laterVars == << unhandled, teardown, journal >>
historyVars == << burst, timerLog, previous, policyIn, policyOut, laterVars >>

\* ------------------------------------------------------------ data shapes
\* the auxiliary resources created at lines 355-359
TaskManager(dir) == [kind |-> "ProjectTaskManager", dir |-> dir]
TestManager(dir) == [kind |-> "ProjectTestManager", dir |-> dir]
NoManager == [kind |-> "undefined", dir |-> NoDir]

\* status bar texts: lines 311, 385 and 401-406
LoadingText == [env |-> "Loading...", dir |-> NoDir]
EnvText(env, dir) == [env |-> env, dir |-> dir]

\* a timer handle: the directory its callback was made for, and whether
\* the callback is still scheduled
NoTimeout == [dir |-> NoDir, pending |-> FALSE]
\* the number of callbacks scheduled, over all directories
RECURSIVE Count(_, _)
Count(ts, ds) ==
  IF ds = {} THEN 0
  ELSE LET d == CHOOSE x \in ds : TRUE IN ts[d] + Count(ts, ds \ {d})
Scheduled(ts) == Count(ts, Dirs)

\* a frame of switchToProject: its arguments, its locals and where it waits,
\* and as history: what lintConfig answered, kept while the call goes on
\* (lint), how the call relates to the other calls (rel), whether it disposed
\* and created auxiliary resources, and how it returned (result)
IdleFrame ==
  [ pc |-> "idle", projectDir |-> NoDir, options |-> NoOptions,
    currentProjectDir |-> NoDir, currentEnv |-> NoEnv, envArg |-> NoEnv,
    lint |-> "pending", rel |-> "alone", disposed |-> FALSE,
    created |-> FALSE, result |-> "none" ]
\* the part of the state a continuation of switchToProject reads and writes
Heap ==
  [ active |-> activeProjectDir, observers |-> observers, env |-> selectedEnv,
    subs |-> internalSubscriptions, tm |-> taskManager, sb |-> sbText,
    store |-> projectsState, lastDir |-> lastProjectDir ]

\* ------------------------------------------------- collaborators (pool, helpers)
\* ProjectPool.getObserver: the observer of dir, created on first access
getObserver(h, dir) == [h EXCEPT !.observers = @ \cup {dir}]

\* ProjectPool.getActiveObserver: the observer of the active directory, if any
getActiveObserver(h) == h.active

\* ProjectObserver.getSelectedEnv
getSelectedEnv(h, dir) == h.env[dir]

\* ProjectObserver.switchProjectEnv, at its completion: the name is recorded
switchProjectEnv(h, dir, name) == [h EXCEPT !.env[dir] = name]

\* ProjectPool.switch, up to its first suspension: dir becomes the active one
poolSwitch(h, dir) == [h EXCEPT !.active = dir]

\* utils.disposeSubscriptions: disposes every element and empties the array
disposeSubscriptions(subs) == << >>

\* helpers.getProjectItemState(projectDir, 'selectedEnv')
getProjectItemState(h, dir) == h.store[dir]

\* helpers.getActiveEditorProjectDir(): what it can return, the directory of
\* the focused editor's project or undefined
getActiveEditorProjectDir == DirOrNone

\* helpers.updateProjectItemState(projectDir, 'selectedEnv', value): the value
\* is persisted for the directory, which becomes the last active directory
updateProjectItemState(h, dir, value) ==
  [h EXCEPT !.store[dir] = value, !.lastDir = dir]

\* ----------------------------------------------------- ProjectManager methods
\* variant: the persisted last directory is preferred to the active one
getSelectedProjectDir_LastFirst(pioProjectDirs, currentActiveDir, lastActiveDir) ==
  IF Len(pioProjectDirs) < 1 THEN NoDir
  ELSE IF lastActiveDir # NoDir /\ lastActiveDir \in Range(pioProjectDirs)
    THEN lastActiveDir
  ELSE IF currentActiveDir # NoDir /\ currentActiveDir \in Range(pioProjectDirs)
    THEN currentActiveDir
  ELSE pioProjectDirs[1]

\* getSelectedProjectDir, lines 272-292
getSelectedProjectDir(pioProjectDirs, currentActiveDir, lastActiveDir) ==
  IF Len(pioProjectDirs) < 1 THEN NoDir
  ELSE IF currentActiveDir # NoDir /\ currentActiveDir \in Range(pioProjectDirs)
    THEN currentActiveDir
  ELSE IF lastActiveDir # NoDir /\ lastActiveDir \in Range(pioProjectDirs)
    THEN lastActiveDir
  ELSE pioProjectDirs[1]

\* findActiveProjectDir, lines 264-270; editorDir is what
\* getActiveEditorProjectDir() returns, onEditor the configuration option
\* activateProjectOnTextEditorChange
findActiveProjectDir(pioProjectDirs, editorDir, onEditor, currentActiveDir, lastActiveDir) ==
  LET projectDir == IF onEditor THEN editorDir ELSE NoDir
  IN IF projectDir # NoDir THEN projectDir
     ELSE getSelectedProjectDir(pioProjectDirs, currentActiveDir, lastActiveDir)

\* variant: nothing is persisted
saveActiveProjectState_Skips(h) == h

\* saveActiveProjectState, lines 294-304
saveActiveProjectState(h) ==
  IF getActiveObserver(h) = NoDir THEN h
  ELSE updateProjectItemState(h, getActiveObserver(h),
                              getSelectedEnv(h, getActiveObserver(h)))

\* showSelectedEnv, lines 396-407
showSelectedEnv(h) ==
  IF getActiveObserver(h) = NoDir THEN h
  ELSE [h EXCEPT !.sb = EnvText(getSelectedEnv(h, getActiveObserver(h)),
                                getActiveObserver(h))]

\* switchToProject, lines 372-374: the end of every call that was not aborted
switchEpilogue(h, f) ==
  [ heap |-> saveActiveProjectState(showSelectedEnv(h)),
    frame |-> [f EXCEPT !.pc = "returned", !.result = "ok", !.lint = "pending",
                        !.currentProjectDir = NoDir, !.currentEnv = NoEnv] ]

\* variant: the cycle runs whatever the active selection is
mustSwitch_Always(h, f) == TRUE

\* variant: options.force is not looked at
mustSwitch_IgnoresForce(h, f) ==
  \/ f.currentProjectDir = NoDir
  \/ f.currentProjectDir # f.projectDir
  \/ f.currentEnv # getSelectedEnv(h, f.projectDir)

\* switchToProject, lines 347-352: whether the dispose/create cycle runs
mustSwitch(h, f) ==
  \/ f.options.force
  \/ f.currentProjectDir = NoDir
  \/ f.currentProjectDir # f.projectDir
  \/ f.currentEnv # getSelectedEnv(h, f.projectDir)

\* switchToProject, lines 353-354: the old resources are disposed and the
\* pool switch is started and awaited
switchDispose(h, f) ==
  [ heap |-> poolSwitch([h EXCEPT !.subs = disposeSubscriptions(h.subs)],
                        f.projectDir),
    frame |-> [f EXCEPT !.pc = "switch", !.disposed = TRUE,
                        !.currentProjectDir = NoDir, !.currentEnv = NoEnv] ]

\* switchToProject, lines 346-374, entered with the target environment set
switchAfterEnv(h, f) ==
  IF mustSwitch(h, f) THEN switchDispose(h, f) ELSE switchEpilogue(h, f)

\* switchToProject, lines 355-374: the pool switch has completed
switchCreate(h, f) ==
  switchEpilogue(
    [h EXCEPT !.tm = TaskManager(f.projectDir),
              !.subs = h.subs \o << TaskManager(f.projectDir),
                                    TestManager(f.projectDir) >>],
    [f EXCEPT !.created = TRUE])

\* where a dispose/create cycle can throw after line 353: the awaited
\* this._pool.switch rejects (354), new ProjectTaskManager throws (355), or
\* new ProjectTestManager throws (358)
FailurePoints == {"pool.switch", "ProjectTaskManager", "ProjectTestManager"}

\* switchToProject, lines 354-359, when one of them throws: nothing catches
\* the error inside the function, so the rest of it, lines 355-373 or the
\* push of 356-359 onwards, does not run and the promise is rejected
switchFailed(h, f, where) ==
  [ heap |-> IF where = "ProjectTestManager"
               THEN [h EXCEPT !.tm = TaskManager(f.projectDir)]
             ELSE h,
    frame |-> [f EXCEPT !.pc = "returned", !.result = "error",
                        !.lint = "pending"] ]

\* variant: the environment is loaded from the workspace state even when
\* the observer has a selection
switchSelectEnv_AlwaysReloads(h, f) ==
  IF f.options.hasEnv
    THEN [heap |-> h, frame |-> [f EXCEPT !.pc = "env", !.envArg = f.options.env]]
  ELSE [heap |-> h,
        frame |-> [f EXCEPT !.pc = "env",
                            !.envArg = getProjectItemState(h, f.projectDir)]]

\* variant: the persisted environment is not loaded
switchSelectEnv_IgnoresPersisted(h, f) ==
  IF f.options.hasEnv
    THEN [heap |-> h, frame |-> [f EXCEPT !.pc = "env", !.envArg = f.options.env]]
  ELSE switchAfterEnv(h, f)

\* switchToProject, lines 338-344: the environment is chosen; the call
\* waits on switchProjectEnv when it is made
switchSelectEnv(h, f) ==
  IF f.options.hasEnv
    THEN [heap |-> h, frame |-> [f EXCEPT !.pc = "env", !.envArg = f.options.env]]
  ELSE IF getSelectedEnv(h, f.projectDir) = NoEnv
    THEN [heap |-> h,
          frame |-> [f EXCEPT !.pc = "env",
                              !.envArg = getProjectItemState(h, f.projectDir)]]
  ELSE switchAfterEnv(h, f)

\* switchToProject, lines 339-344 resumed: switchProjectEnv has completed
switchEnvDone(h, f) ==
  switchAfterEnv(switchProjectEnv(h, f.projectDir, f.envArg),
                 [f EXCEPT !.envArg = NoEnv])

LintOutcomes == {"valid", "invalid", "threw"}

\* variant: the auxiliary resources are disposed before the configuration
\* is found invalid
switchLintDone_DisposesFirst(h, f, outcome) ==
  IF outcome = "invalid"
    THEN [heap |-> [h EXCEPT !.subs = disposeSubscriptions(h.subs)],
          frame |-> [f EXCEPT !.pc = "returned", !.result = "invalid",
                              !.lint = outcome,
                              !.currentProjectDir = NoDir, !.currentEnv = NoEnv]]
  ELSE switchSelectEnv(h, [f EXCEPT !.lint = outcome])

\* switchToProject, lines 323-336: lintConfig has answered "valid" or
\* "invalid", or has thrown ("threw")
switchLintDone(h, f, outcome) ==
  IF outcome = "invalid"
    THEN [heap |-> h,
          frame |-> [f EXCEPT !.pc = "returned", !.result = "invalid",
                              !.lint = outcome,
                              !.currentProjectDir = NoDir, !.currentEnv = NoEnv]]
  ELSE switchSelectEnv(h, [f EXCEPT !.lint = outcome])

\* switchToProject, lines 306-324: the call, up to the await of lintConfig
switchEnter(h, f, projectDir, options) ==
  IF projectDir = NoDir
    THEN [heap |-> h,
          frame |-> [f EXCEPT !.pc = "returned", !.options = options,
                              !.result = "rejected"]]
  ELSE LET cur == getActiveObserver(h)
       IN [ heap |-> getObserver([h EXCEPT !.sb = LoadingText], projectDir),
            frame |-> [f EXCEPT !.pc = "lint", !.projectDir = projectDir,
                                !.options = options,
                                !.currentProjectDir = cur,
                                !.currentEnv = IF cur = NoDir THEN NoEnv
                                               ELSE getSelectedEnv(h, cur)] ]

\* ------------------------------------------------------------------ steps
InFlight == { c \in Slots : calls[c].pc \in {"lint", "env", "switch"} }
FreeSlots == { c \in Slots : calls[c].pc = "idle" }
NextSlot == CHOOSE c \in FreeSlots : \A k \in FreeSlots : c <= k

SetHeap(h) ==
  /\ activeProjectDir' = h.active
  /\ observers' = h.observers
  /\ selectedEnv' = h.env
  /\ internalSubscriptions' = h.subs
  /\ taskManager' = h.tm
  /\ sbText' = h.sb
  /\ projectsState' = h.store
  /\ lastProjectDir' = h.lastDir

\* history kept in `rel`: how a call relates to the calls around it.
\* "alone": no other call was in flight at any time of this one;
\* "superseded": while this call waited on lintConfig, a call for another
\* directory was made; "overlapped": any other overlap.
RelOnStart(f, projectDir) ==
  IF f.rel = "superseded" \/ (f.pc = "lint" /\ f.projectDir # projectDir)
    THEN "superseded" ELSE "overlapped"

\* a continuation r of the call in slot c has run up to its next await or
\* to its return
Settle(c, r) ==
  /\ SetHeap(r.heap)
  /\ calls' = [calls EXCEPT ![c] = r.frame]

\* switchToProject(projectDir, options) is called, lines 306-324, from the
\* heap h the caller leaves
switchToProject(h, projectDir, options) ==
  /\ FreeSlots # {}
  /\ LET c == NextSlot
         r == switchEnter(h, IdleFrame, projectDir, options)
     IN /\ SetHeap(r.heap)
        /\ calls' = [ k \in Slots |->
                      IF k = c
                        THEN [r.frame EXCEPT !.rel =
                                IF InFlight = {} THEN "alone" ELSE "overlapped"]
                      ELSE IF k \in InFlight /\ projectDir # NoDir
                        THEN [calls[k] EXCEPT !.rel = RelOnStart(calls[k], projectDir)]
                      ELSE calls[k] ]

\* JavaScript values as far as line 207 needs them: numbers, undefined, NaN
Number(n) == [kind |-> "number", n |-> n]
Undefined == [kind |-> "undefined", n |-> 0]
NaN == [kind |-> "NaN", n |-> 0]
\* no setTimeout was called yet
NoDelay == [kind |-> "none", n |-> 0]
\* a * b: the product of two numbers, NaN when an operand is undefined or NaN
Times(a, b) ==
  IF a.kind = "number" /\ b.kind = "number" THEN Number(a.n * b.n) ELSE NaN

\* line 147: the class field, in seconds
CONFIG_CHANGED_DELAY == 3
\* the fields the class body gives every instance: line 147 declares
\* CONFIG_CHANGED_DELAY without `static`
InstanceFields == [CONFIG_CHANGED_DELAY |-> Number(CONFIG_CHANGED_DELAY)]
\* the static members of the class: lines 146-442 declare none
StaticFields == << >>
\* object.name: the member, or undefined when there is none
Get(fields, name) ==
  IF name \in DOMAIN fields THEN fields[name] ELSE Undefined
\* line 207: ProjectManager.CONFIG_CHANGED_DELAY * 1000, the delay argument
\* of setTimeout
configChangedDelay ==
  Times(Get(StaticFields, "CONFIG_CHANGED_DELAY"), Number(1000))

\* clearTimeout(handle): the callback the handle names is unscheduled, when
\* it still is scheduled
clearTimeout(ts, handle) ==
  IF handle.dir # NoDir /\ handle.pending
    THEN [ts EXCEPT ![handle.dir] = @ - 1]
  ELSE ts

\* variant: the timer already set is not cleared
onDidChangeProjectConfig_NoClear(ts, handle, projectDir) ==
  [ timers |-> [ts EXCEPT ![projectDir] = @ + 1],
    handle |-> [dir |-> projectDir, pending |-> TRUE] ]

\* api.onDidChangeProjectConfig, lines 196-209: the timer the handle names
\* is cleared and a new one is set for the directory of the changed file
onDidChangeProjectConfig(ts, handle, projectDir) ==
  LET cleared == IF handle # NoTimeout THEN clearTimeout(ts, handle) ELSE ts
  IN [ timers |-> [cleared EXCEPT ![projectDir] = @ + 1],
       handle |-> [dir |-> projectDir, pending |-> TRUE] ]

\* vscode.window.onDidChangeActiveTextEditor handler, lines 222-230
OnDidChangeActiveTextEditor ==
  \E onEditor \in BOOLEAN, editorDir \in getActiveEditorProjectDir :
    /\ onEditor
    /\ editorDir # NoDir
    /\ switchToProject(Heap, editorDir, NoOptions)
    /\ UNCHANGED << timerVars, historyVars >>

\* vscode.workspace.onDidChangeWorkspaceFolders handler, lines 231-233
OnDidChangeWorkspaceFolders ==
  \E projectDir \in
       { findActiveProjectDir(pioProjectDirs, editorDir, onEditor,
                              activeProjectDir, lastProjectDir) :
           pioProjectDirs \in ProjectDirLists, editorDir \in getActiveEditorProjectDir,
           onEditor \in BOOLEAN } :
    /\ switchToProject(Heap, projectDir, NoOptions)
    /\ UNCHANGED << timerVars, historyVars >>

\* pickProjectEnv, lines 409-441: an observer is fetched for every project
\* directory and the picked item is switched to, forced
PickProjectEnv ==
  \E pioProjectDirs \in ProjectDirLists :
    \E projectDir \in Range(pioProjectDirs), env \in EnvOrNone :
      /\ switchToProject([Heap EXCEPT !.observers = @ \cup Range(pioProjectDirs)],
                         projectDir,
                         [hasEnv |-> TRUE, env |-> env, force |-> TRUE])
      /\ UNCHANGED << timerVars, historyVars >>

\* a project configuration file changes: the observer of its directory
\* calls api.onDidChangeProjectConfig
ConfigChanged(projectDir) ==
  LET r == onDidChangeProjectConfig(timers, configChangedTimeout, projectDir)
  IN /\ projectDir \in observers
     /\ Scheduled(r.timers) <= MaxTimers
     /\ timers' = r.timers
     /\ configChangedTimeout' = r.handle
     /\ timeoutDelay' = configChangedDelay
     /\ UNCHANGED << heapVars, calls >>

\* a scheduled timer expires and its callback, lines 203-206, runs;
\* byHandle says whether it is the timer the handle names
TimeoutFired(projectDir, byHandle) ==
  /\ timers[projectDir] > 0
  /\ IF byHandle
       THEN /\ configChangedTimeout = [dir |-> projectDir, pending |-> TRUE]
            /\ configChangedTimeout' = [configChangedTimeout EXCEPT !.pending = FALSE]
       ELSE /\ timers[projectDir] >
                 (IF configChangedTimeout = [dir |-> projectDir, pending |-> TRUE]
                    THEN 1 ELSE 0)
            /\ UNCHANGED configChangedTimeout
  /\ timers' = [timers EXCEPT ![projectDir] = @ - 1]
  /\ UNCHANGED timeoutDelay
  /\ switchToProject(Heap, projectDir, ForceOption)

OnDidChangeProjectConfig ==
  \E projectDir \in Dirs :
    /\ ConfigChanged(projectDir)
    /\ UNCHANGED historyVars

ConfigChangedTimeoutFired ==
  \E projectDir \in Dirs, byHandle \in BOOLEAN :
    /\ TimeoutFired(projectDir, byHandle)
    /\ UNCHANGED historyVars

\* lintConfig settles, lines 324-336, and the call runs on to its next await
LintConfigDone ==
  \E c \in Slots, outcome \in LintOutcomes :
    /\ calls[c].pc = "lint"
    /\ Settle(c, switchLintDone(Heap, calls[c], outcome))
    /\ UNCHANGED << timerVars, historyVars >>

\* observer.switchProjectEnv settles, lines 339-343
SwitchProjectEnvDone ==
  \E c \in Slots :
    /\ calls[c].pc = "env"
    /\ Settle(c, switchEnvDone(Heap, calls[c]))
    /\ UNCHANGED << timerVars, historyVars >>

\* this._pool.switch settles, line 354
PoolSwitchDone ==
  \E c \in Slots :
    /\ calls[c].pc = "switch"
    /\ Settle(c, switchCreate(Heap, calls[c]))
    /\ UNCHANGED << timerVars, historyVars >>

\* the cycle of a call throws, lines 354-359.  No caller of switchToProject
\* awaits its promise or attaches a handler to it (lines 204, 228, 232, 255
\* and 440), so the rejection is an unhandled one
SwitchFailed ==
  \E c \in Slots, where \in FailurePoints :
    /\ calls[c].pc = "switch"
    /\ Settle(c, switchFailed(Heap, calls[c], where))
    /\ unhandled' = unhandled \cup {c}
    /\ UNCHANGED << timerVars, burst, timerLog, previous, policyIn, policyOut,
                    teardown, journal >>

\* -------------------------------------------------------------- construction
\* the fields a new ProjectManager and its new pool start with, lines 149-251
\* and 376-386, over the workspace state that outlives the session
FreshHeap(store, lastDir) ==
  [ active |-> NoDir, observers |-> {}, env |-> [d \in Dirs |-> NoEnv],
    subs |-> << >>, tm |-> NoManager, sb |-> LoadingText,
    store |-> store, lastDir |-> lastDir ]

\* the directories the constructor's last statement, line 255, may switch to
StartupDirs(lastDir) ==
  { findActiveProjectDir(pioProjectDirs, editorDir, onEditor, NoDir, lastDir) :
      pioProjectDirs \in ProjectDirLists, editorDir \in getActiveEditorProjectDir,
      onEditor \in BOOLEAN }

\* the session as the constructor leaves it, line 255 included
Constructed(store, lastDir, projectDir) ==
  LET r == switchEnter(FreshHeap(store, lastDir), IdleFrame, projectDir,
                       ForceOption)
  IN [ heap |-> r.heap,
       calls |-> [c \in Slots |-> IF c = 1 THEN r.frame ELSE IdleFrame] ]

NoPolicyIn ==
  [ pioProjectDirs |-> << >>, editorDir |-> NoDir, onEditor |-> FALSE,
    currentActiveDir |-> NoDir, lastActiveDir |-> NoDir ]

NoTeardown == [removed |-> {}, disposed |-> FALSE]

InitLater ==
  /\ unhandled = {}
  /\ teardown = NoTeardown
  /\ journal = << >>

InitHistory ==
  /\ InitLater
  /\ burst = << >>
  /\ timerLog = << >>
  /\ previous = [d \in Dirs |-> "unknown"]
  /\ policyIn = NoPolicyIn
  /\ policyOut = "unresolved"

\* the first session of a workspace: nothing is persisted yet
InitSession ==
  \E projectDir \in StartupDirs(NoDir) :
    LET s == Constructed([d \in Dirs |-> NoEnv], NoDir, projectDir)
    IN /\ activeProjectDir = s.heap.active
       /\ observers = s.heap.observers
       /\ selectedEnv = s.heap.env
       /\ internalSubscriptions = s.heap.subs
       /\ taskManager = s.heap.tm
       /\ sbText = s.heap.sb
       /\ projectsState = s.heap.store
       /\ lastProjectDir = s.heap.lastDir
       /\ calls = s.calls
       /\ timers = [d \in Dirs |-> 0]
       /\ timeoutDelay = NoDelay
       /\ configChangedTimeout = NoTimeout

Init == InitSession /\ InitHistory

Next ==
  \/ OnDidChangeActiveTextEditor
  \/ OnDidChangeWorkspaceFolders
  \/ PickProjectEnv
  \/ OnDidChangeProjectConfig
  \/ ConfigChangedTimeoutFired
  \/ LintConfigDone
  \/ SwitchProjectEnvDone
  \/ PoolSwitchDone

Spec == Init /\ [][Next]_vars

\* ------------------------------------------------- the debounce, with history
\* a configuration change, recorded: a change that finds no timer scheduled
\* starts a new burst
SignalRecorded ==
  \E projectDir \in Dirs :
    /\ Scheduled(timers) = 0 \/ Len(burst) < MaxSignals
    /\ ConfigChanged(projectDir)
    /\ burst' = IF Scheduled(timers) = 0 THEN << projectDir >>
                ELSE Append(burst, projectDir)
    /\ timerLog' = IF Scheduled(timers) = 0 THEN << >> ELSE timerLog
    /\ UNCHANGED << previous, policyIn, policyOut, laterVars >>

\* a timer callback, recorded with the call it makes
TimeoutRecorded ==
  \E projectDir \in Dirs, byHandle \in BOOLEAN :
    /\ TimeoutFired(projectDir, byHandle)
    /\ timerLog' = Append(timerLog,
                          [ projectDir |-> calls'[NextSlot].projectDir,
                            options |-> calls'[NextSlot].options ])
    /\ UNCHANGED << burst, previous, policyIn, policyOut, laterVars >>

\* the timers and the calls they make, after the constructor's call
NextDebounce ==
  \/ SignalRecorded
  \/ TimeoutRecorded
  \/ LintConfigDone
  \/ SwitchProjectEnvDone
  \/ PoolSwitchDone

SpecDebounce == Init /\ [][NextDebounce]_vars

\* ------------------------------------------------------------ the restart
\* what the ending session is known to have persisted for a directory: the
\* environment of its last successful call with an explicit environment,
\* when that call overlapped no other
Persisted(dir) ==
  LET done == { c \in Slots : /\ calls[c].pc = "returned"
                              /\ calls[c].result = "ok"
                              /\ calls[c].projectDir = dir
                              /\ calls[c].options.hasEnv }
  IN IF done = {} THEN "unknown"
     ELSE LET c == CHOOSE k \in done : \A j \in done : j <= k
          IN IF calls[c].rel = "alone" THEN calls[c].options.env ELSE "unknown"

\* the window is reloaded: the session is gone, the workspace state stays,
\* and a new ProjectManager is constructed
Restart ==
  \E projectDir \in StartupDirs(lastProjectDir) :
    LET s == Constructed(projectsState, lastProjectDir, projectDir)
    IN /\ SetHeap(s.heap)
       /\ calls' = s.calls
       /\ timers' = [d \in Dirs |-> 0]
       /\ configChangedTimeout' = NoTimeout
       /\ timeoutDelay' = NoDelay
       /\ previous' = [d \in Dirs |-> Persisted(d)]
       /\ UNCHANGED << burst, timerLog, policyIn, policyOut, laterVars >>

\* sessions whose calls are made one after the other, and the restarts
\* between them, which may come at any time
NextRestart ==
  \/ InFlight = {} /\ OnDidChangeActiveTextEditor
  \/ InFlight = {} /\ OnDidChangeWorkspaceFolders
  \/ InFlight = {} /\ PickProjectEnv
  \/ LintConfigDone
  \/ SwitchProjectEnvDone
  \/ PoolSwitchDone
  \/ Restart

SpecRestart == Init /\ [][NextRestart]_vars

\* ------------------------------------------ the choice of the directory, alone
PolicyInputs ==
  [ pioProjectDirs : ProjectDirLists, editorDir : getActiveEditorProjectDir, onEditor : BOOLEAN,
    currentActiveDir : DirOrNone, lastActiveDir : DirOrNone ]

InitPolicy ==
  /\ InitSession
  /\ InitLater
  /\ burst = << >>
  /\ timerLog = << >>
  /\ previous = [d \in Dirs |-> "unknown"]
  /\ policyIn \in PolicyInputs
  /\ policyOut = "unresolved"

Resolve ==
  /\ policyOut = "unresolved"
  /\ policyOut' = findActiveProjectDir(policyIn.pioProjectDirs, policyIn.editorDir,
                                       policyIn.onEditor, policyIn.currentActiveDir,
                                       policyIn.lastActiveDir)
  /\ UNCHANGED << heapVars, timerVars, calls, burst, timerLog, previous, policyIn,
                  laterVars >>

NextPolicy == Resolve

SpecPolicy == InitPolicy /\ [][NextPolicy]_vars

\* ------------------------------------------------- the errors of a cycle
\* the constructor's call and the calls the timer callbacks make, any of
\* which may throw in its dispose/create cycle
NextErrors ==
  \/ SignalRecorded
  \/ TimeoutRecorded
  \/ LintConfigDone
  \/ SwitchProjectEnvDone
  \/ PoolSwitchDone
  \/ SwitchFailed

SpecErrors == Init /\ [][NextErrors]_vars

\* -------------------------------------------------------------- the teardown
\* dispose(), lines 258-262: this.disposeInternals is defined nowhere, so
\* line 259 throws a TypeError and lines 260-261 do not run; no line of
\* dispose() clears this._configChangedTimeout
Dispose ==
  /\ ~teardown.disposed
  /\ teardown' = [teardown EXCEPT !.disposed = TRUE]
  /\ UNCHANGED << heapVars, timerVars, calls, burst, timerLog, previous,
                  policyIn, policyOut, unhandled, journal >>

\* a project directory is removed from the workspace: the
\* onDidChangeWorkspaceFolders handler, lines 231-233, runs over the
\* directories that are left
ProjectRemoved ==
  \E d \in Dirs \ teardown.removed :
    LET gone == teardown.removed \cup {d}
    IN \E projectDir \in
            { findActiveProjectDir(pioProjectDirs, editorDir, onEditor,
                                   activeProjectDir, lastProjectDir) :
                pioProjectDirs \in { l \in ProjectDirLists : Range(l) \cap gone = {} },
                editorDir \in getActiveEditorProjectDir \ gone,
                onEditor \in BOOLEAN } :
         /\ switchToProject(Heap, projectDir, NoOptions)
         /\ teardown' = [teardown EXCEPT !.removed = gone]
         /\ UNCHANGED << timerVars, burst, timerLog, previous, policyIn,
                         policyOut, unhandled, journal >>

\* a configuration change of a directory that is still in the workspace of
\* a manager that is not disposed
ConfigChangedBeforeTeardown ==
  \E projectDir \in Dirs \ teardown.removed :
    /\ ~teardown.disposed
    /\ ConfigChanged(projectDir)
    /\ UNCHANGED historyVars

NextTeardown ==
  \/ ConfigChangedBeforeTeardown
  \/ ConfigChangedTimeoutFired
  \/ LintConfigDone
  \/ SwitchProjectEnvDone
  \/ PoolSwitchDone
  \/ ProjectRemoved
  \/ Dispose

SpecTeardown == Init /\ [][NextTeardown]_vars

\* ------------------------------------------------ a session, call after call
\* what the journal keeps of a call that passed lintConfig, lines 338-344:
\* its directory, whether it named an environment, whether it loaded the
\* environment from the workspace state (line 342), and its target
\* environment; f is its frame before lintConfig settled, r what followed
JournalEntry(f, r) ==
  [ projectDir |-> f.projectDir,
    hasEnv |-> f.options.hasEnv,
    reloaded |-> ~f.options.hasEnv /\ r.frame.pc = "env",
    target |-> IF r.frame.pc = "env" THEN r.frame.envArg
               ELSE getSelectedEnv(r.heap, f.projectDir) ]

\* the journal after a call that passed lintConfig: a call that names an
\* environment starts it anew, a call that names none ("Default") ends it,
\* any other call is added while there is room
Journaled(entry) ==
  IF entry.hasEnv
    THEN IF entry.target # NoEnv THEN << entry >> ELSE << >>
  ELSE IF journal = << >> \/ Len(journal) >= MaxJournal THEN journal
  ELSE Append(journal, entry)

\* lintConfig settles, lines 324-336, and the call is entered in the journal
\* when it goes on
LintConfigJournaled ==
  \E c \in Slots, outcome \in LintOutcomes :
    LET r == switchLintDone(Heap, calls[c], outcome)
    IN /\ calls[c].pc = "lint"
       /\ Settle(c, r)
       /\ journal' = IF outcome = "invalid" THEN journal
                     ELSE Journaled(JournalEntry(calls[c], r))
       /\ UNCHANGED << timerVars, burst, timerLog, previous, policyIn,
                       policyOut, unhandled, teardown >>

\* the frames of the calls that returned are released
Forget ==
  /\ InFlight = {}
  /\ FreeSlots = {}
  /\ calls' = [c \in Slots |-> IdleFrame]
  /\ UNCHANGED << heapVars, timerVars, historyVars >>

\* the next call is made when the one before it has returned
CanCall == InFlight = {}

NextSequence ==
  \/ CanCall /\ OnDidChangeActiveTextEditor
  \/ CanCall /\ OnDidChangeWorkspaceFolders
  \/ CanCall /\ PickProjectEnv
  \/ LintConfigJournaled
  \/ SwitchProjectEnvDone
  \/ PoolSwitchDone
  \/ Forget

SpecSequence == Init /\ [][NextSequence]_vars

\* ------------------------------------------------------------------ claims
\* getActiveSelection(): the active directory and its observer's environment
ActiveSelection ==
  << activeProjectDir,
     IF activeProjectDir = NoDir THEN NoEnv ELSE selectedEnv[activeProjectDir] >>

\* the directories that have live auxiliary resources
LiveDirs == { internalSubscriptions[i].dir : i \in 1..Len(internalSubscriptions) }

Made == { c \in Slots : calls[c].pc # "idle" }
IsLatest(c) == c \in Made /\ \A k \in Made : k <= c
Returned(c, result) == calls[c].pc = "returned" /\ calls[c].result = result

\* C1: at no time do task/test managers created for two different
\* directories exist undisposed side by side.
C1_OneLiveDirectory == Cardinality(LiveDirs) <= 1

\* C2: a call that was superseded while it waited on lintConfig changes
\* neither the active selection nor the auxiliary resources when it resumes,
\* and when every call has returned the active directory and the live
\* resources are those of the latest call that passed validation.
C2_SupersededCallIsInert ==
  /\ [][ \A c \in Slots :
           (calls[c].rel = "superseded" /\ calls'[c].pc # calls[c].pc)
             => UNCHANGED << ActiveSelection, internalSubscriptions, taskManager >>
       ]_vars
  /\ [](\A c \in Slots :
          (InFlight = {} /\ IsLatest(c) /\ Returned(c, "ok")
             /\ \E k \in Slots : calls[k].rel = "superseded")
            => activeProjectDir = calls[c].projectDir
               /\ LiveDirs \subseteq {calls[c].projectDir})

\* C3: a call that lintConfig answers "invalid" returns without having
\* changed the active selection or disposed or replaced any auxiliary
\* resource, from its first statement to its return.
C3_InvalidConfigKeepsState ==
  [][ \A c \in Slots :
        (\/ calls[c].pc = "idle" /\ calls'[c].pc = "lint"
         \/ calls[c].pc = "lint" /\ calls'[c].pc = "returned"
              /\ calls'[c].result = "invalid")
          => UNCHANGED << ActiveSelection, internalSubscriptions, taskManager >>
    ]_vars

C3_Witness ==
  \E c \in Slots :
    /\ Returned(c, "invalid")
    /\ activeProjectDir \in Dirs
    /\ activeProjectDir # calls[c].projectDir
    /\ internalSubscriptions # << >>

\* C4: a call whose lintConfig threw is aborted just as one whose lintConfig
\* answered "invalid".
C4_LintErrorAborts ==
  \A c \in Slots :
    calls[c].lint = "threw" => Returned(c, "invalid")

C6_BurstMakesOneCall ==
  (burst # << >> /\ \A i \in 1..Len(burst) : burst[i] = burst[1])
  => IF Scheduled(timers) = 0
       THEN timerLog = << [projectDir |-> burst[1], options |-> ForceOption] >>
     ELSE /\ timerLog = << >>
          /\ Scheduled(timers) = 1
          /\ configChangedTimeout = [dir |-> burst[1], pending |-> TRUE]

C6_Witness ==
  /\ Len(burst) = MaxSignals
  /\ \A i \in 1..Len(burst) : burst[i] = "A"
  /\ Scheduled(timers) = 0
  /\ timerLog = << [projectDir |-> "A", options |-> ForceOption] >>

\* C8: when the session before the restart persisted environment x for a
\* directory, the first call of the new session for that directory, made
\* without an explicit environment and overlapping no other call, selects x.
C8_PersistedEnvRoundTrips ==
  \A c \in Slots :
    LET dir == calls[c].projectDir
    IN (/\ dir \in Dirs
        /\ previous[dir] # "unknown"
        /\ ~calls[c].options.hasEnv
        /\ calls[c].rel = "alone"
        /\ IsLatest(c)
        /\ \A k \in Slots : k < c => calls[k].projectDir # dir
        /\ calls[c].pc = "switch" \/ Returned(c, "ok"))
       => selectedEnv[dir] = previous[dir]

C8_Witness ==
  \E c \in Slots :
    /\ calls[c].projectDir = "A"
    /\ previous["A"] = "x"
    /\ ~calls[c].options.hasEnv
    /\ calls[c].rel = "alone"
    /\ IsLatest(c)
    /\ Returned(c, "ok")
    /\ selectedEnv["A"] = "x"

\* C9: with no focused-editor directory to apply, the resolution returns the
\* active directory when it is a candidate, else the persisted last
\* directory when it is a candidate, else the first candidate, else none.
C9_ResolutionOrder ==
  (policyOut # "unresolved" /\ (policyIn.editorDir = NoDir \/ ~policyIn.onEditor))
  => LET candidates == policyIn.pioProjectDirs
     IN IF policyIn.currentActiveDir \in Range(candidates)
          THEN policyOut = policyIn.currentActiveDir
        ELSE IF policyIn.lastActiveDir \in Range(candidates)
          THEN policyOut = policyIn.lastActiveDir
        ELSE IF candidates # << >> THEN policyOut = candidates[1]
        ELSE policyOut = NoDir

C9_Witness ==
  /\ policyIn.pioProjectDirs = << "B", "A" >>
  /\ policyIn.currentActiveDir = "A"
  /\ policyIn.lastActiveDir = "B"
  /\ policyIn.editorDir = "B"
  /\ ~policyIn.onEditor
  /\ policyOut = "A"

\* C10: two calls for the same directory are never in flight together: the
\* second starts only when the first has returned.
C10_SameDirectorySerialized ==
  \A c, k \in InFlight :
    c # k => calls[c].projectDir # calls[k].projectDir

\* what the promise of a switchToProject call settles with: every return
\* of the function, lines 309, 332 and 374, is a return without a value
Settled(f) ==
  IF f.result \in {"rejected", "invalid", "ok"}
    THEN [how |-> "fulfilled", value |-> "undefined"]
  ELSE IF f.result = "error" THEN [how |-> "rejected", value |-> "Error"]
  ELSE [how |-> "pending", value |-> "undefined"]

\* C12: a call without a directory changes nothing of the session (the
\* status bar text, the active selection, the auxiliary resources, the
\* observers, the persisted state), and its caller is handed an error: the
\* promise is rejected or is fulfilled with something other than undefined.
C12_NoDirectoryIsAnError ==
  /\ [][ \A c \in Slots :
           (calls[c].pc = "idle" /\ calls'[c].result = "rejected")
             => UNCHANGED heapVars ]_vars
  /\ [](\A c \in Slots :
          calls[c].result = "rejected"
            => \/ Settled(calls[c]).how = "rejected"
               \/ Settled(calls[c]).value # "undefined")

\* C13 (its directory part): whenever a directory is active, the live
\* auxiliary resources are those created for it, in every state, the states
\* in which a call is suspended included.
C13_SelectionMatchesLiveResources ==
  activeProjectDir # NoDir => LiveDirs = {activeProjectDir}

\* C14: a configuration change for one directory never unschedules a timer
\* set for another directory: the timers of a directory decrease only when
\* one of them fires (a call is made) or is replaced by a change for that
\* same directory.
C14_TimersPerDirectory ==
  [][ \A d \in Dirs :
        (calls' = calls /\ configChangedTimeout'.dir # d)
          => timers'[d] >= timers[d] ]_vars

\* the step in which a call that passed lintConfig decides whether its
\* dispose/create cycle runs, lines 347-352
Decides(c) ==
  /\ calls[c].pc \in {"lint", "env"}
  /\ \/ calls'[c].pc = "switch"
     \/ calls'[c].pc = "returned" /\ calls'[c].result = "ok"

\* C16: a call that passed lintConfig runs its cycle exactly when it is
\* forced or the directory and environment that were active when it was made
\* differ from its directory and target environment; a cycle first disposes
\* every auxiliary resource and creates the new ones only afterwards.
C16_ForcedSwitchRunsFullCycle ==
  [][ \A c \in Slots :
        LET f == calls[c]
            g == calls'[c]
        IN /\ Decides(c) =>
                /\ (g.pc = "switch") <=>
                     \/ f.options.force
                     \/ ~ /\ f.currentProjectDir = f.projectDir
                          /\ f.currentEnv = selectedEnv'[f.projectDir]
                /\ g.pc = "switch" =>
                     internalSubscriptions' = << >> /\ g.disposed /\ ~g.created
           /\ (f.pc = "switch" /\ g.pc = "returned") =>
                /\ f.disposed /\ g.created
                /\ TaskManager(f.projectDir) \in Range(internalSubscriptions')
                /\ TestManager(f.projectDir) \in Range(internalSubscriptions')
    ]_vars

C16_Witness ==
  \E c \in Slots :
    /\ (c + 1) \in Slots
    /\ Returned(c, "ok") /\ Returned(c + 1, "ok")
    /\ calls[c].rel = "alone" /\ calls[c + 1].rel = "alone"
    /\ calls[c].projectDir = calls[c + 1].projectDir
    /\ calls[c + 1].options = ForceOption
    /\ calls[c + 1].disposed /\ calls[c + 1].created

\* C19: when a call that lintConfig answered "invalid" has returned and no
\* call is in flight, the status bar shows the label of the active
\* directory and environment again, not "Loading...".
C19_AbortRestoresIndicator ==
  \A c \in Slots :
    (/\ Returned(c, "invalid") /\ IsLatest(c)
     /\ InFlight = {}
     /\ activeProjectDir # NoDir)
    => sbText = EnvText(selectedEnv[activeProjectDir], activeProjectDir)

\* C15: the resolution returns a candidate or none, and none when there is
\* no candidate, whatever the focused editor's directory is.
C15_ResolutionInsideCandidates ==
  policyOut # "unresolved"
  => /\ policyOut \in Range(policyIn.pioProjectDirs) \cup {NoDir}
     /\ policyIn.pioProjectDirs = << >> => policyOut = NoDir

\* C11: when the dispose/create cycle of a call has thrown and no call is
\* in flight or was made since, no directory is active.
C11_CycleErrorEndsIdle ==
  \A c \in Slots :
    (Returned(c, "error") /\ IsLatest(c) /\ InFlight = {})
    => activeProjectDir = NoDir

\* the calls a timer callback made: under SpecErrors every call after the
\* constructor's
MadeByTimer(c) == c \in Made /\ c > 1

\* C18: no call made by a timer callback ends as an unhandled rejection.
C18_TimerCallbackCatches ==
  \A c \in unhandled : ~MadeByTimer(c)

\* C17: no timer callback runs, and so makes its call, for a directory that
\* was removed from the workspace or after the manager was disposed: the
\* teardown cancelled the timer.
C17_TeardownCancelsTimer ==
  [][ \A d \in Dirs :
        (timers'[d] < timers[d] /\ calls' # calls)
          => d \notin teardown.removed /\ ~teardown.disposed ]_vars

\* C20: of three calls made one after the other, the first for a directory
\* with an explicit environment x, the second for another directory, the
\* third for the first directory without an explicit environment, the third
\* finds the observer of its directory still registered, targets x again,
\* and does not load the environment from the workspace state.
C20_ObserverSelectionKept ==
  \A i \in 1..Len(journal) :
    (i + 2) <= Len(journal) =>
      LET a == journal[i]
          b == journal[i + 1]
          r == journal[i + 2]
      IN (/\ a.hasEnv /\ a.target # NoEnv
          /\ b.projectDir # a.projectDir
          /\ r.projectDir = a.projectDir /\ ~r.hasEnv)
         => /\ r.target = a.target
            /\ ~r.reloaded
            /\ a.projectDir \in observers

C20_Witness ==
  /\ InFlight = {}
  /\ Len(journal) = 3
  /\ journal[1].projectDir = "A" /\ journal[1].hasEnv /\ journal[1].target = "x"
  /\ journal[2].projectDir = "B"
  /\ journal[3].projectDir = "A" /\ ~journal[3].hasEnv
  /\ journal[3].target = "x" /\ ~journal[3].reloaded
  /\ ActiveSelection = << "A", "x" >>

\* C21: every timer a configuration change sets is set with a delay of
\* CONFIG_CHANGED_DELAY seconds, 3000 milliseconds.
C21_DelayIsThreeSeconds ==
  timeoutDelay # NoDelay
  => timeoutDelay = Number(CONFIG_CHANGED_DELAY * 1000) /\ timeoutDelay.n = 3000

\* the task commands registered by the constructor, lines 237-245, before
\* its call of switchToProject: each applies a method to this._taskManager
TaskCommands ==
  { "platformio-ide.refreshProjectTasks",
    "platformio-ide.toggleMultiEnvProjectTasks",
    "platformio-ide._runProjectTask" }
\* the object a task command applies its method to, in heap h
taskCommandTarget(h, command) == h.tm

\* C22: in every state the task manager a task command would use is
\* defined, is one of the live auxiliary resources, and was created for the
\* active directory.
C22_TaskManagerLive ==
  \A command \in TaskCommands :
    LET tm == taskCommandTarget(Heap, command)
    IN /\ tm # NoManager
       /\ tm \in Range(internalSubscriptions)
       /\ tm.dir = activeProjectDir

\* C23: once dispose() was called no auxiliary resource is live, whatever
\* the calls that were suspended and the timers that were pending then do
\* afterwards.
C23_NothingLiveAfterDispose ==
  teardown.disposed => internalSubscriptions = << >>

====
